---------------------------- MODULE Spec2Model ----------------------------
(***************************************************************************)
(* Commit-reveal wager settlement in the two randomness examples:          *)
(*   sb_randomness   (coin-flip):   initialize / coin_flip / settle_flip   *)
(*   pancake_stacker:               initialize / flip_pancake /            *)
(*                                  catch_pancake                          *)
(* Every instruction is one atomic step of the ledger.  An instruction     *)
(* that returns Err leaves every account as it was; only the transaction   *)
(* log entry `last` tells that it ran.  The two programs are separate      *)
(* deployments that share nothing but the clock and the oracle's           *)
(* randomness accounts, which they only read; `program` is the one a run   *)
(* exercises.  Transaction fees are charged by the runtime, not by the     *)
(* programs, and are not modelled.                                         *)
(*                                                                         *)
(* SpecOutcome starts from a committed player and a revealed byte of any   *)
(* value and runs the settle instructions alone.  SpecOracle runs the      *)
(* Anchor program advanced_oracle_example: initialize /                    *)
(* process_oracle_data / update_authority / get_stats /                    *)
(* legacy_oracle_update on its ProgramState and legacy_oracle accounts.    *)
(***************************************************************************)
EXTENDS Integers, FiniteSets, Sequences, TLC

\* ------------------------------------------------------------- bounds
\* Last slot the clock reaches.
MaxSlot == 3
\* Cap on the successful commits of one player in a run.
MaxCommits == 2
\* Successful process_oracle_data calls a run counts.
MaxCalls == 2
\* Feeds of one quote.
MaxFeeds == 2

\* ---------------------------------------------------------- universe
Programs == {"sb_randomness", "pancake_stacker"}
Users == {"u1"}
\* Keys that can sign a transaction: the users and a key that owns no
\* player state.
Signers == Users \cup {"stranger"}
\* Oracle randomness accounts.
RandAccts == {"r1", "r2"}
\* An account that holds no randomness data: parse fails on it.
BadAcct == "bad"
\* Accounts a caller can pass as randomness_account_data.
Accounts == RandAccts \cup {BadAcct}
\* First bytes of the values the oracle reveals: an odd one (tails in
\* sb_randomness, lands in pancake_stacker) and an even one (heads, knocks
\* the stack over).
Bytes == {1, 2}
\* Pubkey::default()
DefaultPubkey == "default"

VARIABLES
    program,    \* the deployed program the run exercises
    slot,       \* Clock::get()?.slot
    rand,       \* RandomnessAccountData of each randomness account
    cfPlayer,   \* sb_randomness PlayerState, by user (PDA seeded by user key)
    psPlayer,   \* pancake_stacker PlayerState, by user (PDA seeded by user key)
    lamports,   \* lamports of each signer's wallet
    escrow,     \* lamports of the stateEscrow PDA of sb_randomness
    commits,    \* history: successful commits of each user
    outstanding,\* history: successful commits of each user not yet settled
    payouts,    \* history: 2x-wager payouts made to each user
    streak,     \* history: pancakes landed in a row since the last reset
    aoState,    \* advanced_oracle_example ProgramState (PDA seeded by "state")
    aoOracle,   \* advanced_oracle_example quote account (PDA "legacy_oracle")
    pnState,    \* pinocchio advanced-oracle state account (PDA seeded by "state")
    pnQuote,    \* pinocchio advanced-oracle quote account (PDA of queue + feed ids)
    boOracle,   \* the SwitchboardQuote account basic_oracle_example is given
    call,       \* arguments of the latest instruction of a program without state
    out,        \* id/value entries the latest instruction reported
    last        \* log entry of the latest transaction

\* The accounts and the input/output record of the feed programs.
feedVars == <<pnState, pnQuote, boOracle, call, out>>

vars == <<program, slot, rand, cfPlayer, psPlayer, lamports, escrow,
          commits, outstanding, payouts, streak, aoState, aoOracle, feedVars,
          last>>

\* -------------------------------------------------- runtime and oracle
\* Rent::minimum_balance with Solana's default rent (3480 lamports per
\* byte-year, exemption threshold 2 years, 128 bytes of account overhead).
RentMinimumBalance(data_len) == (128 + data_len) * 6960

\* RandomnessAccountData::parse: fails on anything but a randomness account.
ParseOk(acct) == acct \in RandAccts

\* RandomnessAccountData::get_value: the revealed value, or an error while
\* the oracle has not revealed the value of the current seed.
GetValueOk(rd, clock_slot) == rd.reveal_slot # 0 /\ rd.reveal_slot <= clock_slot

\* The oracle's account before its first commit.
EmptyRandomness == [seed_slot |-> 0, reveal_slot |-> 0, value |-> 0]


\* ------------------------------------------------------ transaction log
\* Log entry of one transaction: the instruction, its signer, the account
\* passed as randomness_account_data (DefaultPubkey when the instruction has
\* none or is rejected on player_state), the result, and a sequence bit that
\* sets a transaction apart from the one before it.
Entry(op, user, acct, err) ==
    [op |-> op, user |-> user, acct |-> acct, err |-> err, seq |-> 1 - last.seq]

\* What a handler hands back: its result and the accounts as it left them
\* in memory.  The ledger keeps them only when the result is Ok.
Out(err, ps, from, to) == [err |-> err, ps |-> ps, from |-> from, to |-> to]

\* ------------------------------------------------ sb_randomness (coin-flip)
\* space = 8 + 100 of the player_state account
CfSpace == 108

\* The player_state PDA before initialize creates it.
CfNoPlayer ==
    [exists |-> FALSE, allowed_user |-> DefaultPubkey, latest_flip_result |-> FALSE,
     randomness_account |-> DefaultPubkey, current_guess |-> FALSE, wager |-> 0]

\* transfer that credits `to` and forgets to debit `from`.
transfer_credit_only(from, to, amount, signed) ==
    IF amount > from
    THEN [err |-> "NotEnoughFundsToPlay", from |-> from, to |-> to]
    ELSE IF ~signed
    THEN [err |-> "MissingRequiredSignature", from |-> from, to |-> to]
    ELSE [err |-> "Ok", from |-> from, to |-> to + amount]

\* transfer: lamports of `from` and `to` after moving `amount`; `signed` tells
\* whether `from` signs the system-program transfer (the user's signature,
\* or the escrow PDA's seeds with the bump the caller supplied).
transfer(from, to, amount, signed) ==
    IF amount > from
    THEN [err |-> "NotEnoughFundsToPlay", from |-> from, to |-> to]
    ELSE IF ~signed
    THEN [err |-> "MissingRequiredSignature", from |-> from, to |-> to]
    ELSE [err |-> "Ok", from |-> from - amount, to |-> to + amount]

\* initialize of sb_randomness: the fields the handler writes.
cf_initialize(user) ==
    [exists |-> TRUE, allowed_user |-> user, latest_flip_result |-> FALSE,
     randomness_account |-> DefaultPubkey, current_guess |-> FALSE, wager |-> 100]

\* coin_flip without its freshness check: any seed slot is accepted.
coin_flip_any_seed(ps, user_lamports, escrow_lamports, clock_slot, acct, randomness_account, guess) ==
    LET ps1 == [ps EXCEPT !.current_guess = guess] IN
    IF ~ParseOk(acct)
    THEN Out("ProgramFailedToComplete", ps1, user_lamports, escrow_lamports)
    ELSE LET t == transfer(user_lamports, escrow_lamports, ps1.wager, TRUE) IN
         IF t.err # "Ok"
         THEN Out(t.err, ps1, user_lamports, escrow_lamports)
         ELSE Out("Ok", [ps1 EXCEPT !.randomness_account = randomness_account],
                  t.from, t.to)

\* coin_flip(ctx, randomness_account, guess): ps is the signer's player
\* state, user_lamports and escrow_lamports the balances, acct the account
\* passed as randomness_account_data.
coin_flip(ps, user_lamports, escrow_lamports, clock_slot, acct, randomness_account, guess) ==
    LET ps1 == [ps EXCEPT !.current_guess = guess] IN
    IF ~ParseOk(acct)
    THEN Out("ProgramFailedToComplete", ps1, user_lamports, escrow_lamports)
    ELSE IF rand[acct].seed_slot # clock_slot - 1
    THEN Out("RandomnessAlreadyRevealed", ps1, user_lamports, escrow_lamports)
    ELSE LET t == transfer(user_lamports, escrow_lamports, ps1.wager, TRUE) IN
         IF t.err # "Ok"
         THEN Out(t.err, ps1, user_lamports, escrow_lamports)
         ELSE Out("Ok", [ps1 EXCEPT !.randomness_account = randomness_account],
                  t.from, t.to)

\* settle_flip that reads the value field whether or not get_value succeeds.
settle_flip_unresolved(ps, user_lamports, escrow_lamports, clock_slot, acct, bump_ok) ==
    IF ~ParseOk(acct)
    THEN Out("ProgramFailedToComplete", ps, escrow_lamports, user_lamports)
    ELSE
    LET randomness_result == rand[acct].value % 2 = 0
        ps1 == [ps EXCEPT !.latest_flip_result = randomness_result]
        needed_lamports == ps1.wager * 2 + RentMinimumBalance(0)
    IN  IF randomness_result = ps1.current_guess
        THEN IF needed_lamports > escrow_lamports
             THEN Out("Ok", ps1, escrow_lamports, user_lamports)
             ELSE LET t == transfer(escrow_lamports, user_lamports, ps1.wager * 2, bump_ok)
                  IN  Out(t.err, ps1, t.from, t.to)
        ELSE Out("Ok", ps1, escrow_lamports, user_lamports)

\* settle_flip that pays whatever the flip shows.
settle_flip_pays_loser(ps, user_lamports, escrow_lamports, clock_slot, acct, bump_ok) ==
    IF ~ParseOk(acct)
    THEN Out("ProgramFailedToComplete", ps, escrow_lamports, user_lamports)
    ELSE IF ~GetValueOk(rand[acct], clock_slot)
    THEN Out("RandomnessNotResolved", ps, escrow_lamports, user_lamports)
    ELSE
    LET randomness_result == rand[acct].value % 2 = 0
        ps1 == [ps EXCEPT !.latest_flip_result = randomness_result]
        needed_lamports == ps1.wager * 2 + RentMinimumBalance(0)
    IN  IF needed_lamports > escrow_lamports
        THEN Out("Ok", ps1, escrow_lamports, user_lamports)
        ELSE LET t == transfer(escrow_lamports, user_lamports, ps1.wager * 2, bump_ok)
             IN  Out(t.err, ps1, t.from, t.to)

\* settle_flip that pays whenever the escrow holds two wagers, with no
\* regard to the balance the escrow must keep.
settle_flip_drains(ps, user_lamports, escrow_lamports, clock_slot, acct, bump_ok) ==
    IF ~ParseOk(acct)
    THEN Out("ProgramFailedToComplete", ps, escrow_lamports, user_lamports)
    ELSE IF ~GetValueOk(rand[acct], clock_slot)
    THEN Out("RandomnessNotResolved", ps, escrow_lamports, user_lamports)
    ELSE
    LET randomness_result == rand[acct].value % 2 = 0
        ps1 == [ps EXCEPT !.latest_flip_result = randomness_result]
    IN  IF randomness_result = ps1.current_guess
        THEN LET t == transfer(escrow_lamports, user_lamports, ps1.wager * 2, bump_ok)
             IN  Out(t.err, ps1, t.from, t.to)
        ELSE Out("Ok", ps1, escrow_lamports, user_lamports)

\* settle_flip that credits the payout to the user and leaves the escrow as
\* it was.
settle_flip_keeps_escrow(ps, user_lamports, escrow_lamports, clock_slot, acct, bump_ok) ==
    IF ~ParseOk(acct)
    THEN Out("ProgramFailedToComplete", ps, escrow_lamports, user_lamports)
    ELSE IF ~GetValueOk(rand[acct], clock_slot)
    THEN Out("RandomnessNotResolved", ps, escrow_lamports, user_lamports)
    ELSE
    LET randomness_result == rand[acct].value % 2 = 0
        ps1 == [ps EXCEPT !.latest_flip_result = randomness_result]
        needed_lamports == ps1.wager * 2 + RentMinimumBalance(0)
    IN  IF randomness_result = ps1.current_guess /\ needed_lamports <= escrow_lamports
        THEN IF bump_ok
             THEN Out("Ok", ps1, escrow_lamports, user_lamports + ps1.wager * 2)
             ELSE Out("MissingRequiredSignature", ps1, escrow_lamports, user_lamports)
        ELSE Out("Ok", ps1, escrow_lamports, user_lamports)

\* settle_flip(ctx, escrow_bump): bump_ok tells whether escrow_bump is the
\* bump of the stateEscrow PDA.  `from` of the result is the escrow, `to`
\* the user.
settle_flip(ps, user_lamports, escrow_lamports, clock_slot, acct, bump_ok) ==
    IF ~ParseOk(acct)
    THEN Out("ProgramFailedToComplete", ps, escrow_lamports, user_lamports)
    ELSE IF ~GetValueOk(rand[acct], clock_slot)
    THEN Out("RandomnessNotResolved", ps, escrow_lamports, user_lamports)
    ELSE
    LET randomness_result == rand[acct].value % 2 = 0
        ps1 == [ps EXCEPT !.latest_flip_result = randomness_result]
        needed_lamports == ps1.wager * 2 + RentMinimumBalance(0)
    IN  IF randomness_result = ps1.current_guess
        THEN IF needed_lamports > escrow_lamports
             THEN Out("Ok", ps1, escrow_lamports, user_lamports)
             ELSE LET t == transfer(escrow_lamports, user_lamports, ps1.wager * 2, bump_ok)
                  IN  Out(t.err, ps1, t.from, t.to)
        ELSE Out("Ok", ps1, escrow_lamports, user_lamports)

\* ------------------------------------------------------- pancake_stacker
\* space = 8 + 32 + 8 + 32 + 1 + 8 + 1 of the player_state account
PsSpace == 90

\* The player_state PDA before initialize creates it.
PsNoPlayer ==
    [exists |-> FALSE, authority |-> DefaultPubkey, stack_height |-> 0,
     randomness_account |-> DefaultPubkey, has_pending_flip |-> FALSE,
     commit_slot |-> 0]

\* initialize of pancake_stacker: the fields the handler writes.
ps_initialize(user) ==
    [exists |-> TRUE, authority |-> user, stack_height |-> 0,
     randomness_account |-> DefaultPubkey, has_pending_flip |-> FALSE,
     commit_slot |-> 0]

\* flip_pancake that starts every flip from an empty stack.
flip_pancake_resets(ps, clock_slot, acct, randomness_account) ==
    IF ps.has_pending_flip
    THEN Out("AlreadyHasPendingFlip", ps, 0, 0)
    ELSE IF ~ParseOk(acct)
    THEN Out("InvalidRandomnessAccount", ps, 0, 0)
    ELSE IF rand[acct].seed_slot # clock_slot - 1
    THEN Out("RandomnessExpired", ps, 0, 0)
    ELSE IF GetValueOk(rand[acct], clock_slot)
    THEN Out("RandomnessAlreadyRevealed", ps, 0, 0)
    ELSE Out("Ok", [ps EXCEPT !.randomness_account = randomness_account,
                              !.has_pending_flip = TRUE,
                              !.commit_slot = rand[acct].seed_slot,
                              !.stack_height = 0], 0, 0)

\* flip_pancake(ctx, randomness_account): acct is the account passed as
\* randomness_account_data.  The handler touches no lamports.
flip_pancake(ps, clock_slot, acct, randomness_account) ==
    IF ps.has_pending_flip
    THEN Out("AlreadyHasPendingFlip", ps, 0, 0)
    ELSE IF ~ParseOk(acct)
    THEN Out("InvalidRandomnessAccount", ps, 0, 0)
    ELSE IF rand[acct].seed_slot # clock_slot - 1
    THEN Out("RandomnessExpired", ps, 0, 0)
    ELSE IF GetValueOk(rand[acct], clock_slot)
    THEN Out("RandomnessAlreadyRevealed", ps, 0, 0)
    ELSE Out("Ok", [ps EXCEPT !.randomness_account = randomness_account,
                              !.has_pending_flip = TRUE,
                              !.commit_slot = rand[acct].seed_slot], 0, 0)

\* catch_pancake that lands the pancake on an odd byte.
catch_pancake_odd_lands(ps, clock_slot, acct) ==
    IF ~ps.has_pending_flip
    THEN Out("NoPendingFlip", ps, 0, 0)
    ELSE IF acct # ps.randomness_account
    THEN Out("InvalidRandomnessAccount", ps, 0, 0)
    ELSE IF ~ParseOk(acct)
    THEN Out("InvalidRandomnessAccount", ps, 0, 0)
    ELSE IF rand[acct].seed_slot # ps.commit_slot
    THEN Out("RandomnessExpired", ps, 0, 0)
    ELSE IF ~GetValueOk(rand[acct], clock_slot)
    THEN Out("RandomnessNotResolved", ps, 0, 0)
    ELSE
    LET landed == rand[acct].value % 2 = 1
        ps1 == [ps EXCEPT !.has_pending_flip = FALSE,
                          !.randomness_account = DefaultPubkey]
    IN  IF landed
        THEN Out("Ok", [ps1 EXCEPT !.stack_height = @ + 1], 0, 0)
        ELSE Out("Ok", [ps1 EXCEPT !.stack_height = 0], 0, 0)

\* catch_pancake that settles the flip and leaves it pending.
catch_pancake_keeps_flag(ps, clock_slot, acct) ==
    IF ~ps.has_pending_flip
    THEN Out("NoPendingFlip", ps, 0, 0)
    ELSE IF acct # ps.randomness_account
    THEN Out("InvalidRandomnessAccount", ps, 0, 0)
    ELSE IF ~ParseOk(acct)
    THEN Out("InvalidRandomnessAccount", ps, 0, 0)
    ELSE IF rand[acct].seed_slot # ps.commit_slot
    THEN Out("RandomnessExpired", ps, 0, 0)
    ELSE IF ~GetValueOk(rand[acct], clock_slot)
    THEN Out("RandomnessNotResolved", ps, 0, 0)
    ELSE
    LET landed == rand[acct].value % 3 < 2
    IN  IF landed
        THEN Out("Ok", [ps EXCEPT !.stack_height = @ + 1], 0, 0)
        ELSE Out("Ok", [ps EXCEPT !.stack_height = 0], 0, 0)

\* catch_pancake that leaves the randomness reference in place.
catch_pancake_keeps_ref(ps, clock_slot, acct) ==
    IF ~ps.has_pending_flip
    THEN Out("NoPendingFlip", ps, 0, 0)
    ELSE IF acct # ps.randomness_account
    THEN Out("InvalidRandomnessAccount", ps, 0, 0)
    ELSE IF ~ParseOk(acct)
    THEN Out("InvalidRandomnessAccount", ps, 0, 0)
    ELSE IF rand[acct].seed_slot # ps.commit_slot
    THEN Out("RandomnessExpired", ps, 0, 0)
    ELSE IF ~GetValueOk(rand[acct], clock_slot)
    THEN Out("RandomnessNotResolved", ps, 0, 0)
    ELSE
    LET landed == rand[acct].value % 3 < 2
        ps1 == [ps EXCEPT !.has_pending_flip = FALSE]
    IN  IF landed
        THEN Out("Ok", [ps1 EXCEPT !.stack_height = @ + 1], 0, 0)
        ELSE Out("Ok", [ps1 EXCEPT !.stack_height = 0], 0, 0)

\* catch_pancake(ctx): acct is the account passed as randomness_account_data.
catch_pancake(ps, clock_slot, acct) ==
    IF ~ps.has_pending_flip
    THEN Out("NoPendingFlip", ps, 0, 0)
    ELSE IF acct # ps.randomness_account
    THEN Out("InvalidRandomnessAccount", ps, 0, 0)
    ELSE IF ~ParseOk(acct)
    THEN Out("InvalidRandomnessAccount", ps, 0, 0)
    ELSE IF rand[acct].seed_slot # ps.commit_slot
    THEN Out("RandomnessExpired", ps, 0, 0)
    ELSE IF ~GetValueOk(rand[acct], clock_slot)
    THEN Out("RandomnessNotResolved", ps, 0, 0)
    ELSE
    LET landed == rand[acct].value % 3 < 2
        ps1 == [ps EXCEPT !.has_pending_flip = FALSE,
                          !.randomness_account = DefaultPubkey]
    IN  IF landed
        THEN Out("Ok", [ps1 EXCEPT !.stack_height = @ + 1], 0, 0)
        ELSE Out("Ok", [ps1 EXCEPT !.stack_height = 0], 0, 0)

\* ---------------------------------------------- advanced_oracle_example
\* space = 8 + 32 + 8 + 8 + 8 of the state account
AoSpace == 64

\* The state PDA before initialize creates it.
AoNoState ==
    [exists |-> FALSE, authority |-> DefaultPubkey, oracle_calls |-> 0,
     last_update_slot |-> 0, total_feeds_processed |-> 0]

\* The legacy_oracle PDA before legacy_oracle_update creates it.
AoNoOracle == [exists |-> FALSE, slot |-> 0]

\* What a handler of advanced_oracle_example hands back: its result and the
\* two accounts as it left them in memory.
AoOut(err, state, oracle) == [err |-> err, state |-> state, oracle |-> oracle]

\* initialize(ctx, authority): the fields the handler writes.
ao_initialize(authority) ==
    [exists |-> TRUE, authority |-> authority, oracle_calls |-> 0,
     last_update_slot |-> 0, total_feeds_processed |-> 0]

\* QuoteVerifier ... verify_loaded of the quote in oracle_account: whether the
\* SDK accepts it.
VerifyOk(quote, clock_slot) == quote.valid /\ quote.slot <= clock_slot

\* process_oracle_data that counts one feed per call, whatever the quote
\* holds.
process_oracle_data_one_feed(state, oracle, authority, quote, clock_slot) ==
    IF state.authority # authority
    THEN AoOut("UnauthorizedAccess", state, oracle)
    ELSE IF ~VerifyOk(quote, clock_slot)
    THEN AoOut("QuoteVerificationFailed", state, oracle)
    ELSE AoOut("Ok",
               [state EXCEPT !.oracle_calls = @ + 1,
                             !.last_update_slot = quote.slot,
                             !.total_feeds_processed = @ + 1],
               oracle)

\* process_oracle_data(ctx), signed by authority, with quote the content of
\* oracle_account.
process_oracle_data(state, oracle, authority, quote, clock_slot) ==
    IF state.authority # authority
    THEN AoOut("UnauthorizedAccess", state, oracle)
    ELSE IF ~VerifyOk(quote, clock_slot)
    THEN AoOut("QuoteVerificationFailed", state, oracle)
    ELSE AoOut("Ok",
               [state EXCEPT !.oracle_calls = @ + 1,
                             !.last_update_slot = quote.slot,
                             !.total_feeds_processed = @ + quote.feeds],
               oracle)

\* update_authority without its authority check.
update_authority_open(state, oracle, current_authority, new_authority) ==
    AoOut("Ok", [state EXCEPT !.authority = new_authority], oracle)

\* update_authority(ctx, new_authority), signed by current_authority.
update_authority(state, oracle, current_authority, new_authority) ==
    IF state.authority # current_authority
    THEN AoOut("UnauthorizedAccess", state, oracle)
    ELSE AoOut("Ok", [state EXCEPT !.authority = new_authority], oracle)

\* get_stats(ctx): logs the counters of state.
get_stats(state, oracle) == AoOut("Ok", state, oracle)

\* legacy_oracle_update(ctx), signed by payer: oracle arrives created
\* (init_if_needed) and the handler writes the quote of the current slot
\* into it.
legacy_oracle_update(state, oracle, payer, clock_slot) ==
    IF state.authority # payer
    THEN AoOut("UnauthorizedAccess", state, oracle)
    ELSE AoOut("Ok", state, [exists |-> TRUE, slot |-> clock_slot])

\* ------------------------------------- advanced-oracle-example (pinocchio)
\* STATE_ACCOUNT_SIZE
StateAccountSize == 32
\* ORACLE_ACCOUNT_SIZE = 8 + 32 + 1024
OracleAccountSize == 1064

\* Accounts a caller can pass where the program expects its state account
\* or its quote account: the state PDA, the canonical quote PDA, and a
\* wallet (owned by the system program, no data).
PnAccounts == {"state_pda", "quote_pda", "wallet"}

\* The state PDA before init_state creates it: no lamports, owned by the
\* system program.
PnNoState == [exists |-> FALSE, data |-> DefaultPubkey]

\* The quote PDA before init_oracle creates it.  head is the account's first
\* 32 bytes: "zero" as created, "quote" as the SDK writes them, or a key
\* copied over them.
PnNoQuote == [exists |-> FALSE, head |-> "zero", slot |-> 0, feeds |-> 0]

\* What a handler of the pinocchio program hands back: its result, the two
\* accounts as it left them, and the lamports it took from the payer.
PnOut(err, state, quote, paid) ==
    [err |-> err, state |-> state, quote |-> quote, paid |-> paid]

\* account.lamports() != 0
PnFunded(account, state, quote) ==
    CASE account = "state_pda" -> state.exists
      [] account = "quote_pda" -> quote.exists
      [] OTHER -> TRUE

\* is_state_account taken for any program-owned account.
is_state_account_any_size(account, state, quote) ==
    \/ account = "state_pda" /\ state.exists
    \/ account = "quote_pda" /\ quote.exists

\* is_state_account(account, program_id): owned by the program and 32 bytes
\* long.  The program creates 32-byte accounts at the state PDA alone.
is_state_account(account, state, quote) ==
    account = "state_pda" /\ state.exists

\* crank(program_id, accounts): account is passed as state, payer is the key
\* of the account passed as payer, ix the quote in the instructions sysvar.
\* The quote is written into the quote PDA.
crank(state, quote, account, payer, ix) ==
    IF ~is_state_account(account, state, quote)
    THEN PnOut("Custom(2)", state, quote, 0)
    ELSE IF state.data # payer
    THEN PnOut("Custom(1)", state, quote, 0)
    ELSE IF ~quote.exists
    THEN PnOut("ProgramFailedToComplete", state, quote, 0)
    ELSE PnOut("Ok", state,
               [exists |-> TRUE, head |-> "quote", slot |-> ix.slot,
                feeds |-> ix.feeds], 0)

\* read(program_id, accounts): verify_account(quote).unwrap().
read(state, quote, verified) ==
    IF ~quote.exists \/ quote.head # "quote" \/ ~verified
    THEN PnOut("ProgramFailedToComplete", state, quote, 0)
    ELSE PnOut("Ok", state, quote, 0)

\* init_state_account_if_needed: account is passed as state_account; signed
\* tells whether the payer signs the transaction, sys_ok whether the account
\* passed as system_program is the system program.
init_state_account_if_needed(state, quote, account, payer_lamports, signed, sys_ok) ==
    IF PnFunded(account, state, quote)
    THEN PnOut("Ok", state, quote, 0)
    ELSE IF ~sys_ok
    THEN PnOut("IncorrectProgramId", state, quote, 0)
    ELSE IF account # "state_pda"
    THEN PnOut("InvalidArgument", state, quote, 0)
    ELSE IF ~signed
    THEN PnOut("MissingRequiredSignature", state, quote, 0)
    ELSE IF payer_lamports < RentMinimumBalance(StateAccountSize)
    THEN PnOut("InsufficientFundsForRent", state, quote, 0)
    ELSE PnOut("Ok", [exists |-> TRUE, data |-> DefaultPubkey], quote,
               RentMinimumBalance(StateAccountSize))

\* init_state(program_id, accounts): after init_state_account_if_needed the
\* payer's key is copied over the first 32 bytes of the account passed as
\* state.  A wallet has no data to copy into.
init_state(state, quote, account, payer, payer_lamports, signed, sys_ok) ==
    LET r == init_state_account_if_needed(state, quote, account, payer_lamports,
                                          signed, sys_ok)
    IN  IF r.err # "Ok"
        THEN r
        ELSE CASE account = "state_pda" ->
                    PnOut("Ok", [r.state EXCEPT !.data = payer], r.quote, r.paid)
               [] account = "quote_pda" ->
                    PnOut("Ok", r.state, [r.quote EXCEPT !.head = payer], r.paid)
               [] OTHER ->
                    PnOut("ProgramFailedToComplete", state, quote, 0)

\* init_quote_account_if_needed: account is passed as oracle_account,
\* canonical tells whether it is the PDA of the queue and the feed ids of
\* oracle_quote.
init_quote_account_if_needed(state, quote, account, canonical, payer_lamports, signed, sys_ok) ==
    IF PnFunded(account, state, quote)
    THEN PnOut("Ok", state, quote, 0)
    ELSE IF ~sys_ok
    THEN PnOut("IncorrectProgramId", state, quote, 0)
    ELSE IF account # "quote_pda" \/ ~canonical
    THEN PnOut("InvalidArgument", state, quote, 0)
    ELSE IF ~signed
    THEN PnOut("MissingRequiredSignature", state, quote, 0)
    ELSE IF payer_lamports < RentMinimumBalance(OracleAccountSize)
    THEN PnOut("InsufficientFundsForRent", state, quote, 0)
    ELSE PnOut("Ok", state, [PnNoQuote EXCEPT !.exists = TRUE],
               RentMinimumBalance(OracleAccountSize))

\* init_oracle(program_id, accounts): parsed tells whether
\* parse_ix_data_unverified finds a quote in instruction 0.
init_oracle(state, quote, account, parsed, canonical, payer_lamports, signed, sys_ok) ==
    IF ~parsed
    THEN PnOut("InvalidInstructionData", state, quote, 0)
    ELSE init_quote_account_if_needed(state, quote, account, canonical,
                                      payer_lamports, signed, sys_ok)

\* ------------------------------------------------- basic-oracle-example
\* Feed ids and the quote contents a quote account can hold: up to MaxFeeds
\* feeds, each with an id and a value.
FeedIds == {"btc", "eth"}
FeedSeqs ==
    UNION {[1..n -> [id : FeedIds, value : Bytes]] : n \in 0..MaxFeeds}

\* oracle_account.canonical_key(): the address derived from the queue and
\* the ids of the feeds, in their order.
canonical_key(feeds) == [i \in 1..Len(feeds) |-> feeds[i].id]

\* Addresses at which a quote with these feeds can be stored: the one
\* derived from them, the one derived from a longer feed list, and one that
\* is derived from no feed list.
KeyKinds == {"canonical", "of_other_feeds", "elsewhere"}
BoKey(kind, feeds) ==
    CASE kind = "canonical" -> canonical_key(feeds)
      [] kind = "of_other_feeds" -> Append(canonical_key(feeds), "btc")
      [] OTHER -> <<"elsewhere">>

\* Queue accounts a caller can pass.
Queues == {"default_queue", "other_queue"}

\* The quote account before the quote program wrote it: at the address of
\* the empty feed list, with no feeds.
BoNoOracle == [key |-> <<>>, feeds |-> <<>>, slot |-> 0]

\* What read_oracle_data hands back: its result, the quote account as it
\* left it, and the id/value entries it logged.
BoOut(err, oracle, log) == [err |-> err, oracle |-> oracle, log |-> log]

\* read_oracle_data reporting the first feed only.
read_oracle_data_first_feed(oracle, queue) ==
    IF canonical_key(oracle.feeds) # oracle.key
    THEN BoOut("InvalidOracleAccount", oracle, <<>>)
    ELSE IF queue # "default_queue"
    THEN BoOut("ConstraintAddress", oracle, <<>>)
    ELSE BoOut("Ok", oracle,
               [i \in 1..(IF Len(oracle.feeds) > 0 THEN 1 ELSE 0) |->
                   oracle.feeds[i]])

\* read_oracle_data(ctx) with the constraints of ReadOracleData: the quote
\* account is canonical, the queue is the default queue; then one id and
\* one value are logged per feed.
read_oracle_data(oracle, queue) ==
    IF canonical_key(oracle.feeds) # oracle.key
    THEN BoOut("InvalidOracleAccount", oracle, <<>>)
    ELSE IF queue # "default_queue"
    THEN BoOut("ConstraintAddress", oracle, <<>>)
    ELSE BoOut("Ok", oracle,
               [i \in 1..Len(oracle.feeds) |->
                   [id |-> oracle.feeds[i].id, value |-> oracle.feeds[i].value]])

\* ---------------------------------------------------- prediction-market
\* Order ids a caller can pass.
OrderIds == {"o1", "o2"}

\* format!("https://api.elections.kalshi.com/trade-api/v2/portfolio/orders/{}",
\* order_id)
KalshiUrl(order_id) ==
    <<"https://api.elections.kalshi.com/trade-api/v2/portfolio/orders/", order_id>>

\* The hash of the length-delimited encoding of a feed definition, as the
\* term of what is hashed.
FeedHash(name, url, path) == <<"sha256", name, url, path>>

\* create_kalshi_feed_id(order_id): the hash of the feed definition with
\* the order's URL.
create_kalshi_feed_id(order_id) ==
    FeedHash("Kalshi Order Price", KalshiUrl(order_id), "$.order.yes_price_dollars")

\* Feed ids a quote can carry: those of the orders, and the id of a feed
\* with another definition.
KalshiIds ==
    {create_kalshi_feed_id(order_id) : order_id \in OrderIds}
        \cup {FeedHash("Other Feed", KalshiUrl("o1"), "$.order.yes_price_dollars")}

\* The feed ids of the quotes instruction 0 can carry.
KalshiFeeds == UNION {[1..n -> KalshiIds] : n \in 0..MaxFeeds}

\* verify_kalshi_feed accepting the order's id at any position of the quote.
verify_kalshi_feed_any_feed(order_id, valid, feeds) ==
    IF ~valid
    THEN "ProgramFailedToComplete"
    ELSE IF feeds = <<>>
    THEN "NoOracleFeeds"
    ELSE IF \A i \in 1..Len(feeds) : feeds[i] # create_kalshi_feed_id(order_id)
    THEN "FeedMismatch"
    ELSE "Ok"

\* verify_kalshi_feed(ctx, order_id): valid tells whether
\* verify_instruction_at(0) returns a quote, feeds are the ids of its feeds.
verify_kalshi_feed(order_id, valid, feeds) ==
    IF ~valid
    THEN "ProgramFailedToComplete"
    ELSE IF feeds = <<>>
    THEN "NoOracleFeeds"
    ELSE IF feeds[1] # create_kalshi_feed_id(order_id)
    THEN "FeedMismatch"
    ELSE "Ok"

\* No instruction of a program without state has run yet.
NoCall == [order_id |-> "none", valid |-> FALSE, feeds |-> <<>>]

\* The feed programs before any of their accounts exists and before any of
\* their instructions ran.
FeedInit ==
    /\ pnState = PnNoState
    /\ pnQuote = PnNoQuote
    /\ boOracle = BoNoOracle
    /\ call = NoCall
    /\ out = <<>>

\* ------------------------------------------------------------ the ledger
\* Wallet balance of every user, and of the escrow, when a run starts.
UserFunds == RentMinimumBalance(CfSpace) + 250
EscrowFunds == RentMinimumBalance(0) + 400

Init ==
    /\ program \in Programs
    /\ slot = 2  \* a slot after the one the programs were deployed in
    /\ rand = [r \in RandAccts |-> EmptyRandomness]
    /\ cfPlayer = [u \in Users |-> CfNoPlayer]
    /\ psPlayer = [u \in Users |-> PsNoPlayer]
    /\ lamports = [u \in Signers |-> UserFunds]
    /\ escrow = EscrowFunds
    /\ commits = [u \in Users |-> 0]
    /\ outstanding = [u \in Users |-> 0]
    /\ payouts = [u \in Users |-> 0]
    /\ streak = [u \in Users |-> 0]
    /\ aoState = AoNoState
    /\ aoOracle = AoNoOracle
    /\ FeedInit
    /\ last = [op |-> "none", user |-> DefaultPubkey, acct |-> DefaultPubkey,
               err |-> "Ok", seq |-> 0]

\* The clock moves to the next slot.
Tick ==
    /\ slot < MaxSlot
    /\ slot' = slot + 1
    /\ UNCHANGED <<program, feedVars, streak, aoState, aoOracle, rand, cfPlayer, psPlayer, lamports, escrow,
                   commits, outstanding, payouts, last>>

\* The oracle commits randomness account r to the current slot's hash.
RandCommit(r) ==
    /\ rand[r].seed_slot # slot
    /\ rand' = [rand EXCEPT ![r] = [seed_slot |-> slot, reveal_slot |-> 0, value |-> 0]]
    /\ UNCHANGED <<program, feedVars, streak, aoState, aoOracle, slot, cfPlayer, psPlayer, lamports, escrow,
                   commits, outstanding, payouts, last>>

\* The oracle reveals the value of r's seed, in a slot after the seed slot.
RandReveal(r, byte) ==
    /\ rand[r].seed_slot # 0
    /\ rand[r].reveal_slot = 0
    /\ rand[r].seed_slot < slot
    /\ rand' = [rand EXCEPT ![r].reveal_slot = slot, ![r].value = byte]
    /\ UNCHANGED <<program, feedVars, streak, aoState, aoOracle, slot, cfPlayer, psPlayer, lamports, escrow,
                   commits, outstanding, payouts, last>>

\* player_state without its seeds constraint: any player's PDA is accepted.
SeedsAny(user, owner) == TRUE

\* seeds = [b"playerState", user.key().as_ref()] on player_state: the account
\* passed as player_state is the PDA of the signing user.
SeedsOk(user, owner) == user = owner

\* A transaction that failed: nothing but the log changes.
Failed(op, user, acct, err) ==
    /\ last' = Entry(op, user, acct, err)
    /\ UNCHANGED <<program, feedVars, streak, aoState, aoOracle, slot, rand, cfPlayer, psPlayer, lamports, escrow,
                   commits, outstanding, payouts>>

\* sb_randomness initialize, signed by user: Anchor creates the player_state
\* PDA (init, payer = user), then the handler runs.
CfInitialize(user) ==
    /\ program = "sb_randomness"
    /\ IF cfPlayer[user].exists
       THEN Failed("initialize", user, DefaultPubkey, "AccountAlreadyInUse")
       ELSE IF lamports[user] < RentMinimumBalance(CfSpace)
       THEN Failed("initialize", user, DefaultPubkey, "InsufficientFundsForRent")
       ELSE /\ cfPlayer' = [cfPlayer EXCEPT ![user] = cf_initialize(user)]
            /\ lamports' = [lamports EXCEPT ![user] = @ - RentMinimumBalance(CfSpace)]
            /\ last' = Entry("initialize", user, DefaultPubkey, "Ok")
            /\ UNCHANGED <<program, feedVars, streak, aoState, aoOracle, slot, rand, psPlayer, escrow,
                           commits, outstanding, payouts>>

\* sb_randomness coin_flip, signed by user, with owner's PDA passed as
\* player_state and acct as randomness_account_data.  The arguments
\* randomness_account and guess are read only by a call that succeeds.  A run
\* stops counting at MaxCommits successful commits.
CoinFlip(user, owner, acct) ==
    /\ program = "sb_randomness"
    /\ IF ~cfPlayer[owner].exists
       THEN Failed("coin_flip", user, acct, "AccountNotInitialized")
       ELSE IF ~SeedsOk(user, owner)
       THEN Failed("coin_flip", user, DefaultPubkey, "ConstraintSeeds")
       ELSE LET err == coin_flip(cfPlayer[owner], lamports[user], escrow, slot,
                                 acct, acct, FALSE).err
            IN  IF err # "Ok"
                THEN Failed("coin_flip", user, acct, err)
                ELSE \E randomness_account \in RandAccts, guess \in BOOLEAN :
                     LET r == coin_flip(cfPlayer[owner], lamports[user], escrow,
                                        slot, acct, randomness_account, guess)
                     IN
                     /\ commits[owner] < MaxCommits
                     /\ cfPlayer' = [cfPlayer EXCEPT ![owner] = r.ps]
                     /\ lamports' = [lamports EXCEPT ![user] = r.from]
                     /\ escrow' = r.to
                     /\ commits' = [commits EXCEPT ![owner] = @ + 1]
                     /\ outstanding' = [outstanding EXCEPT ![owner] = @ + 1]
                     /\ last' = Entry("coin_flip", user, acct, "Ok")
                     /\ UNCHANGED <<program, feedVars, streak, aoState, aoOracle, slot, rand, psPlayer, payouts>>

\* sb_randomness settle_flip, signed by user.
SettleFlip(user, acct, bump_ok) ==
    /\ program = "sb_randomness"
    /\ IF ~cfPlayer[user].exists
       THEN Failed("settle_flip", user, acct, "AccountNotInitialized")
       ELSE LET r == settle_flip(cfPlayer[user], lamports[user], escrow, slot,
                                 acct, bump_ok)
            IN  IF r.err # "Ok"
                THEN Failed("settle_flip", user, acct, r.err)
                ELSE /\ cfPlayer' = [cfPlayer EXCEPT ![user] = r.ps]
                     /\ lamports' = [lamports EXCEPT ![user] = r.to]
                     /\ escrow' = r.from
                     /\ outstanding' = [outstanding EXCEPT ![user] = IF @ > 0 THEN @ - 1 ELSE 0]
                     /\ payouts' = [payouts EXCEPT ![user] =
                                       IF r.from < escrow THEN @ + 1 ELSE @]
                     /\ last' = Entry("settle_flip", user, acct, "Ok")
                     /\ UNCHANGED <<program, feedVars, streak, aoState, aoOracle, slot, rand, psPlayer, commits>>

\* pancake_stacker initialize, signed by user.
PsInitialize(user) ==
    /\ program = "pancake_stacker"
    /\ IF psPlayer[user].exists
       THEN Failed("initialize", user, DefaultPubkey, "AccountAlreadyInUse")
       ELSE IF lamports[user] < RentMinimumBalance(PsSpace)
       THEN Failed("initialize", user, DefaultPubkey, "InsufficientFundsForRent")
       ELSE /\ psPlayer' = [psPlayer EXCEPT ![user] = ps_initialize(user)]
            /\ lamports' = [lamports EXCEPT ![user] = @ - RentMinimumBalance(PsSpace)]
            /\ streak' = [streak EXCEPT ![user] = 0]
            /\ last' = Entry("initialize", user, DefaultPubkey, "Ok")
            /\ UNCHANGED <<program, feedVars, aoState, aoOracle, slot, rand, cfPlayer, escrow,
                           commits, outstanding, payouts>>

\* pancake_stacker flip_pancake, signed by user and by authority, with
\* owner's PDA passed as player_state and acct as randomness_account_data.
\* The argument randomness_account is read only by a call that succeeds.  A
\* run stops counting at MaxCommits successful commits.
FlipPancake(user, owner, authority, acct) ==
    /\ program = "pancake_stacker"
    /\ IF ~psPlayer[owner].exists
       THEN Failed("flip_pancake", user, acct, "AccountNotInitialized")
       ELSE IF ~SeedsOk(user, owner)
       THEN Failed("flip_pancake", user, DefaultPubkey, "ConstraintSeeds")
       ELSE IF psPlayer[owner].authority # authority
       THEN Failed("flip_pancake", user, acct, "Unauthorized")
       ELSE IF psPlayer[owner].authority # user
       THEN Failed("flip_pancake", user, acct, "Unauthorized")
       ELSE LET err == flip_pancake(psPlayer[owner], slot, acct, acct).err
            IN  IF err # "Ok"
                THEN Failed("flip_pancake", user, acct, err)
                ELSE \E randomness_account \in RandAccts :
                     LET r == flip_pancake(psPlayer[owner], slot, acct,
                                           randomness_account)
                     IN
                     /\ commits[owner] < MaxCommits
                     /\ psPlayer' = [psPlayer EXCEPT ![owner] = r.ps]
                     /\ commits' = [commits EXCEPT ![owner] = @ + 1]
                     /\ outstanding' = [outstanding EXCEPT ![owner] = @ + 1]
                     /\ last' = Entry("flip_pancake", user, acct, "Ok")
                     /\ UNCHANGED <<program, feedVars, streak, aoState, aoOracle, slot, rand, cfPlayer, lamports,
                                    escrow, payouts>>

\* pancake_stacker catch_pancake, signed by user.  The history counts the
\* pancake when the revealed byte lands it and starts over when it does not.
CatchPancake(user, acct) ==
    /\ program = "pancake_stacker"
    /\ IF ~psPlayer[user].exists
       THEN Failed("catch_pancake", user, acct, "AccountNotInitialized")
       ELSE LET r == catch_pancake(psPlayer[user], slot, acct)
            IN  IF r.err # "Ok"
                THEN Failed("catch_pancake", user, acct, r.err)
                ELSE /\ psPlayer' = [psPlayer EXCEPT ![user] = r.ps]
                     /\ outstanding' = [outstanding EXCEPT ![user] = IF @ > 0 THEN @ - 1 ELSE 0]
                     /\ streak' = [streak EXCEPT ![user] =
                                      IF rand[acct].value % 3 < 2 THEN @ + 1 ELSE 0]
                     /\ last' = Entry("catch_pancake", user, acct, "Ok")
                     /\ UNCHANGED <<program, feedVars, aoState, aoOracle, slot, rand, cfPlayer, lamports,
                                    escrow, commits, payouts>>

Next ==
    \/ Tick
    \/ \E r \in RandAccts : RandCommit(r)
    \/ \E r \in RandAccts, byte \in Bytes : RandReveal(r, byte)
    \/ \E user \in Users : CfInitialize(user)
    \/ \E user \in Signers, owner \in Users, acct \in Accounts :
          CoinFlip(user, owner, acct)
    \/ \E user \in Users, acct \in Accounts, bump_ok \in BOOLEAN :
          SettleFlip(user, acct, bump_ok)
    \/ \E user \in Users : PsInitialize(user)
    \/ \E user \in Signers, owner \in Users, authority \in Signers, acct \in Accounts :
          FlipPancake(user, owner, authority, acct)
    \/ \E user \in Users, acct \in Accounts : CatchPancake(user, acct)

Spec == Init /\ [][Next]_vars

\* ------------------------------- the ledger of advanced_oracle_example
\* Keys a caller can name as the authority.
Authorities == Signers

\* A quote as oracle_account can hold it: verifiable or not, taken in this
\* slot or the one before, with up to MaxFeeds feeds.
Quotes ==
    [valid : BOOLEAN, slot : {slot - 1, slot}, feeds : 0..MaxFeeds]

\* A transaction of advanced_oracle_example that failed: nothing but the log
\* changes.
AoFailed(op, user, err) == Failed(op, user, DefaultPubkey, err)

\* A transaction of advanced_oracle_example that succeeded with result r
\* and logged the feed entries log.
AoDone(op, user, r, log) ==
    /\ aoState' = r.state
    /\ aoOracle' = r.oracle
    /\ out' = log
    /\ last' = Entry(op, user, DefaultPubkey, "Ok")
    /\ UNCHANGED <<program, slot, rand, cfPlayer, psPlayer, lamports, escrow,
                   commits, outstanding, payouts, streak, pnState, pnQuote, boOracle,
                   call>>

\* initialize, paid by payer: Anchor creates the state PDA (init, payer),
\* then the handler runs.
AoInitialize(payer, authority) ==
    /\ program = "advanced_oracle_example"
    /\ IF aoState.exists
       THEN AoFailed("initialize", payer, "AccountAlreadyInUse")
       ELSE IF lamports[payer] < RentMinimumBalance(AoSpace)
       THEN AoFailed("initialize", payer, "InsufficientFundsForRent")
       ELSE /\ aoState' = ao_initialize(authority)
            /\ lamports' = [lamports EXCEPT ![payer] = @ - RentMinimumBalance(AoSpace)]
            /\ last' = Entry("initialize", payer, DefaultPubkey, "Ok")
            /\ UNCHANGED <<program, feedVars, streak, slot, rand, cfPlayer, psPlayer, escrow,
                           commits, outstanding, payouts, aoOracle>>

\* process_oracle_data, signed by authority.  A run stops counting at
\* MaxCalls successful calls.
ProcessOracleData(authority, quote) ==
    /\ program = "advanced_oracle_example"
    /\ IF ~aoState.exists
       THEN AoFailed("process_oracle_data", authority, "AccountNotInitialized")
       ELSE LET r == process_oracle_data(aoState, aoOracle, authority, quote, slot)
            IN  IF r.err # "Ok"
                THEN AoFailed("process_oracle_data", authority, r.err)
                ELSE /\ aoState.oracle_calls < MaxCalls
                     /\ AoDone("process_oracle_data", authority, r,
                               [i \in 1..quote.feeds |-> "Feed"])

\* update_authority, signed by current_authority.
UpdateAuthority(current_authority, new_authority) ==
    /\ program = "advanced_oracle_example"
    /\ IF ~aoState.exists
       THEN AoFailed("update_authority", current_authority, "AccountNotInitialized")
       ELSE LET r == update_authority(aoState, aoOracle, current_authority,
                                      new_authority)
            IN  IF r.err # "Ok"
                THEN AoFailed("update_authority", current_authority, r.err)
                ELSE AoDone("update_authority", current_authority, r, <<>>)

\* get_stats, sent by user.
GetStats(user) ==
    /\ program = "advanced_oracle_example"
    /\ IF ~aoState.exists
       THEN AoFailed("get_stats", user, "AccountNotInitialized")
       ELSE AoDone("get_stats", user, get_stats(aoState, aoOracle), <<>>)

\* legacy_oracle_update, signed and paid by payer.  The legacy_oracle PDA
\* that init_if_needed creates stays only when the handler returns Ok.
LegacyOracleUpdate(payer) ==
    /\ program = "advanced_oracle_example"
    /\ IF ~aoState.exists
       THEN AoFailed("legacy_oracle_update", payer, "AccountNotInitialized")
       ELSE LET r == legacy_oracle_update(aoState, aoOracle, payer, slot)
            IN  IF r.err # "Ok"
                THEN AoFailed("legacy_oracle_update", payer, r.err)
                ELSE AoDone("legacy_oracle_update", payer, r, <<>>)

InitOracle ==
    /\ program = "advanced_oracle_example"
    /\ slot = 2
    /\ rand = [r \in RandAccts |-> EmptyRandomness]
    /\ cfPlayer = [u \in Users |-> CfNoPlayer]
    /\ psPlayer = [u \in Users |-> PsNoPlayer]
    /\ lamports = [u \in Signers |-> UserFunds]
    /\ escrow = EscrowFunds
    /\ commits = [u \in Users |-> 0]
    /\ outstanding = [u \in Users |-> 0]
    /\ payouts = [u \in Users |-> 0]
    /\ streak = [u \in Users |-> 0]
    /\ aoState = AoNoState
    /\ aoOracle = AoNoOracle
    /\ FeedInit
    /\ last = [op |-> "none", user |-> DefaultPubkey, acct |-> DefaultPubkey,
               err |-> "Ok", seq |-> 0]

NextOracle ==
    \/ Tick
    \/ \E payer \in Signers, authority \in Authorities : AoInitialize(payer, authority)
    \/ \E authority \in Signers, valid \in BOOLEAN, age \in {0, 1}, feeds \in 0..MaxFeeds :
          ProcessOracleData(authority,
                            [valid |-> valid, slot |-> slot - age, feeds |-> feeds])
    \/ \E current_authority \in Signers, new_authority \in Authorities :
          UpdateAuthority(current_authority, new_authority)
    \/ \E user \in Signers : GetStats(user)
    \/ \E payer \in Signers : LegacyOracleUpdate(payer)

SpecOracle == InitOracle /\ [][NextOracle]_vars

\* ------------------- the ledger of advanced-oracle-example (pinocchio)
\* Quotes the instructions sysvar can carry at index 0: taken in this slot
\* or the one before, with up to MaxFeeds feeds.
IxQuotes == [slot : {slot - 1, slot}, feeds : 0..MaxFeeds]

\* Wallet balance of every signer when a run of the pinocchio program starts.
CrankFunds ==
    RentMinimumBalance(StateAccountSize) + RentMinimumBalance(OracleAccountSize)

\* An instruction of the pinocchio program that succeeded with result r, in
\* a transaction signed by signer with payer passed as the payer account.
PnDone(op, signer, payer, r) ==
    /\ pnState' = r.state
    /\ pnQuote' = r.quote
    /\ lamports' = [lamports EXCEPT ![payer] = @ - r.paid]
    /\ last' = Entry(op, signer, payer, "Ok")
    /\ UNCHANGED <<program, slot, rand, cfPlayer, psPlayer, escrow, commits,
                   outstanding, payouts, streak, aoState, aoOracle, boOracle,
                   call, out>>

\* crank, in a transaction signed by signer.
PnCrank(signer, payer, account, ix) ==
    /\ program = "advanced_oracle_pinocchio"
    /\ LET r == crank(pnState, pnQuote, account, payer, ix)
       IN  IF r.err # "Ok"
           THEN Failed("crank", signer, payer, r.err)
           ELSE PnDone("crank", signer, payer, r)

\* read, in a transaction signed by signer.
PnRead(signer, verified) ==
    /\ program = "advanced_oracle_pinocchio"
    /\ LET r == read(pnState, pnQuote, verified)
       IN  IF r.err # "Ok"
           THEN Failed("read", signer, DefaultPubkey, r.err)
           ELSE PnDone("read", signer, signer, r)

\* init_state, in a transaction signed by signer.
PnInitState(signer, payer, account, sys_ok) ==
    /\ program = "advanced_oracle_pinocchio"
    /\ LET r == init_state(pnState, pnQuote, account, payer, lamports[payer],
                           payer = signer, sys_ok)
       IN  IF r.err # "Ok"
           THEN Failed("init_state", signer, payer, r.err)
           ELSE PnDone("init_state", signer, payer, r)

\* init_oracle, in a transaction signed by signer.
PnInitOracle(signer, payer, account, parsed, canonical, sys_ok) ==
    /\ program = "advanced_oracle_pinocchio"
    /\ LET r == init_oracle(pnState, pnQuote, account, parsed, canonical,
                            lamports[payer], payer = signer, sys_ok)
       IN  IF r.err # "Ok"
           THEN Failed("init_oracle", signer, payer, r.err)
           ELSE PnDone("init_oracle", signer, payer, r)

InitCrank ==
    /\ program = "advanced_oracle_pinocchio"
    /\ slot = 2
    /\ rand = [r \in RandAccts |-> EmptyRandomness]
    /\ cfPlayer = [u \in Users |-> CfNoPlayer]
    /\ psPlayer = [u \in Users |-> PsNoPlayer]
    /\ lamports = [u \in Signers |-> CrankFunds]
    /\ escrow = EscrowFunds
    /\ commits = [u \in Users |-> 0]
    /\ outstanding = [u \in Users |-> 0]
    /\ payouts = [u \in Users |-> 0]
    /\ streak = [u \in Users |-> 0]
    /\ aoState = AoNoState
    /\ aoOracle = AoNoOracle
    /\ FeedInit
    /\ last = [op |-> "none", user |-> DefaultPubkey, acct |-> DefaultPubkey,
               err |-> "Ok", seq |-> 0]

NextCrank ==
    \/ Tick
    \/ \E signer \in Signers, payer \in Signers, account \in PnAccounts,
          age \in {0, 1}, feeds \in 0..MaxFeeds :
          PnCrank(signer, payer, account, [slot |-> slot - age, feeds |-> feeds])
    \/ \E signer \in Signers, verified \in BOOLEAN : PnRead(signer, verified)
    \/ \E signer \in Signers, payer \in Signers, account \in PnAccounts,
          sys_ok \in BOOLEAN :
          PnInitState(signer, payer, account, sys_ok)
    \/ \E signer \in Signers, payer \in Signers, account \in PnAccounts,
          parsed \in BOOLEAN, canonical \in BOOLEAN, sys_ok \in BOOLEAN :
          PnInitOracle(signer, payer, account, parsed, canonical, sys_ok)

SpecCrank == InitCrank /\ [][NextCrank]_vars

\* ------------------------------------- the ledger of basic-oracle-example
\* The quote program writes a quote taken in the current slot into the
\* account at key.
BoStore(key, feeds) ==
    /\ program = "basic_oracle_example"
    /\ boOracle' = [key |-> key, feeds |-> feeds, slot |-> slot]
    /\ out' = <<>>
    /\ last' = Entry("verified_update", DefaultPubkey, DefaultPubkey, "Ok")
    /\ UNCHANGED <<program, slot, rand, cfPlayer, psPlayer, lamports, escrow,
                   commits, outstanding, payouts, streak, aoState, aoOracle, pnState,
                   pnQuote, call>>

\* read_oracle_data on the quote account, in a transaction signed by signer.
ReadOracleData(signer, queue) ==
    /\ program = "basic_oracle_example"
    /\ LET r == read_oracle_data(boOracle, queue)
       IN  /\ boOracle' = r.oracle
           /\ out' = r.log
           /\ last' = Entry("read_oracle_data", signer, DefaultPubkey, r.err)
    /\ UNCHANGED <<program, slot, rand, cfPlayer, psPlayer, lamports, escrow,
                   commits, outstanding, payouts, streak, aoState, aoOracle, pnState,
                   pnQuote, call>>

InitBasic ==
    /\ program = "basic_oracle_example"
    /\ slot = 2
    /\ rand = [r \in RandAccts |-> EmptyRandomness]
    /\ cfPlayer = [u \in Users |-> CfNoPlayer]
    /\ psPlayer = [u \in Users |-> PsNoPlayer]
    /\ lamports = [u \in Signers |-> UserFunds]
    /\ escrow = EscrowFunds
    /\ commits = [u \in Users |-> 0]
    /\ outstanding = [u \in Users |-> 0]
    /\ payouts = [u \in Users |-> 0]
    /\ streak = [u \in Users |-> 0]
    /\ aoState = AoNoState
    /\ aoOracle = AoNoOracle
    /\ FeedInit
    /\ last = [op |-> "none", user |-> DefaultPubkey, acct |-> DefaultPubkey,
               err |-> "Ok", seq |-> 0]

NextBasic ==
    \/ Tick
    \/ \E kind \in KeyKinds, feeds \in FeedSeqs :
          BoStore(BoKey(kind, feeds), feeds)
    \/ \E signer \in Signers, queue \in Queues : ReadOracleData(signer, queue)

SpecBasic == InitBasic /\ [][NextBasic]_vars

\* -------------------------------------- the ledger of prediction-market
\* verify_kalshi_feed, in a transaction signed by signer whose instruction 0
\* carries a quote with these feed ids.
VerifyKalshiFeed(signer, order_id, valid, feeds) ==
    /\ program = "prediction_market"
    /\ call' = [order_id |-> order_id, valid |-> valid, feeds |-> feeds]
    /\ last' = Entry("verify_kalshi_feed", signer, DefaultPubkey,
                     verify_kalshi_feed(order_id, valid, feeds))
    /\ UNCHANGED <<program, slot, rand, cfPlayer, psPlayer, lamports, escrow,
                   commits, outstanding, payouts, streak, aoState, aoOracle, pnState,
                   pnQuote, boOracle, out>>

InitMarket ==
    /\ program = "prediction_market"
    /\ slot = 2
    /\ rand = [r \in RandAccts |-> EmptyRandomness]
    /\ cfPlayer = [u \in Users |-> CfNoPlayer]
    /\ psPlayer = [u \in Users |-> PsNoPlayer]
    /\ lamports = [u \in Signers |-> UserFunds]
    /\ escrow = EscrowFunds
    /\ commits = [u \in Users |-> 0]
    /\ outstanding = [u \in Users |-> 0]
    /\ payouts = [u \in Users |-> 0]
    /\ streak = [u \in Users |-> 0]
    /\ aoState = AoNoState
    /\ aoOracle = AoNoOracle
    /\ FeedInit
    /\ last = [op |-> "none", user |-> DefaultPubkey, acct |-> DefaultPubkey,
               err |-> "Ok", seq |-> 0]

NextMarket ==
    \/ Tick
    \/ \E signer \in Signers, order_id \in OrderIds, valid \in BOOLEAN,
          feeds \in KalshiFeeds :
          VerifyKalshiFeed(signer, order_id, valid, feeds)

SpecMarket == InitMarket /\ [][NextMarket]_vars

\* ------------------------------------------------ vocabulary of the claims
CommitOps == {"coin_flip", "flip_pancake"}
SettleOps == {"settle_flip", "catch_pancake"}

\* The step is a transaction signed by user that runs one of ops.
TxStep(ops, user) ==
    /\ last' # last
    /\ last'.op \in ops
    /\ last'.user = user

\* The accounts of the two programs and all balances are as they were.
NothingChanged == UNCHANGED <<cfPlayer, psPlayer, lamports, escrow>>

\* The player state records a commitment.  sb_randomness has no flag: the
\* stored randomness reference is all it keeps of a commit.
CfPending(user) == cfPlayer[user].randomness_account # DefaultPubkey
PsPending(user) == psPlayer[user].has_pending_flip
Pending(user) == CfPending(user) \/ PsPending(user)

\* The player state records no commitment: flag down, reference cleared.
Idle(user) ==
    /\ cfPlayer[user].randomness_account = DefaultPubkey
    /\ ~psPlayer[user].has_pending_flip
    /\ psPlayer[user].randomness_account = DefaultPubkey

\* acct is the randomness account user's player state is committed to: its
\* key is the stored reference and (pancake_stacker, which captures it) its
\* seed slot is the one captured at commit.
Committed(user, acct) ==
    /\ acct \in RandAccts
    /\ \/ /\ program = "sb_randomness"
          /\ cfPlayer[user].exists
          /\ cfPlayer[user].randomness_account = acct
       \/ /\ program = "pancake_stacker"
          /\ psPlayer[user].has_pending_flip
          /\ psPlayer[user].randomness_account = acct
          /\ psPlayer[user].commit_slot = rand[acct].seed_slot

\* The result of settling user against acct now, with the escrow's own bump.
SettleNow(user, acct) ==
    IF program = "sb_randomness"
    THEN settle_flip(cfPlayer[user], lamports[user], escrow, slot, acct, TRUE)
    ELSE catch_pancake(psPlayer[user], slot, acct)

\* ---------------------------------------------------------------- claims

\* C1: in both programs every player has at most one outstanding commitment
\* (a successful commit not yet settled) in every reachable state.
C1_AtMostOneOutstanding == \A u \in Users : outstanding[u] <= 1

\* C2: once a commitment has been settled successfully and none is
\* outstanding, the next settle of the same player on the same, still
\* revealed randomness account, with no transaction in between, fails with
\* the no-pending-commitment error and changes neither player state nor
\* balances.  (A settle turned away for a wrong escrow bump never got to
\* the handler's end and is left aside.)
C2_SecondSettleFails ==
    [][\A u \in Users :
          (/\ last.op \in SettleOps /\ last.user = u /\ last.err = "Ok"
           /\ commits[u] > 0 /\ outstanding[u] = 0
           /\ TxStep(SettleOps, u)
           /\ last'.acct = last.acct
           /\ GetValueOk(rand[last.acct], slot)
           /\ last'.err # "MissingRequiredSignature")
          => (last'.err = "NoPendingFlip" /\ NothingChanged)]_vars

\* C3: in sb_randomness the 2x-wager payouts made to a player never
\* outnumber that player's successful coin_flip commits.
C3_PayoutsWithinCommits == \A u \in Users : payouts[u] <= commits[u]

\* C4: a settle succeeds only against the committed randomness account: the
\* account presented is the one whose reference the commit stored, with the
\* seed slot captured at commit.
C4_SettleOnlyCommitted ==
    [][\A u \in Users :
          (TxStep(SettleOps, u) /\ last'.err = "Ok")
          => Committed(u, last'.acct)]_vars

\* C5: a commit issued while the player has an outstanding commitment, and
\* that nothing else stands against (fresh unrevealed seed, wager covered,
\* the player's own authority signing),
\* fails with AlreadyHasPendingFlip and leaves player state and balances
\* unchanged.
C5_CommitWhilePendingFails ==
    [][\A u \in Users :
          (/\ outstanding[u] > 0
           /\ TxStep(CommitOps, u)
           /\ last'.acct \in RandAccts
           /\ rand[last'.acct].seed_slot = slot - 1
           /\ ~GetValueOk(rand[last'.acct], slot)
           /\ program = "sb_randomness" => lamports[u] >= cfPlayer[u].wager
           /\ last'.err # "Unauthorized")
          => (last'.err = "AlreadyHasPendingFlip" /\ NothingChanged)]_vars

\* C6: a commit whose randomness account has seed_slot # slot - 1 fails and
\* moves no lamports and changes no player state (the guess coin_flip wrote
\* before the check included); when the player exists, has no pending flip
\* and the account parses, the error is the stale-commitment one
\* (RandomnessAlreadyRevealed in coin_flip, RandomnessExpired in
\* flip_pancake, once its account constraints have let the signers through).
C6_StaleCommitRejected ==
    [][\A u \in Users :
          (/\ TxStep(CommitOps, u)
           /\ last'.acct \in RandAccts
           /\ rand[last'.acct].seed_slot # slot - 1)
          => /\ last'.err # "Ok"
             /\ NothingChanged
             /\ (last'.op = "coin_flip" /\ cfPlayer[u].exists)
                   => last'.err = "RandomnessAlreadyRevealed"
             /\ (/\ last'.op = "flip_pancake" /\ psPlayer[u].exists
                 /\ ~psPlayer[u].has_pending_flip
                 /\ last'.err # "Unauthorized")
                   => last'.err = "RandomnessExpired"]_vars

\* C6 witness: a coin_flip of an initialized player who has committed
\* before was rejected for a stale seed slot.
C6_Witness ==
    /\ last.op = "coin_flip"
    /\ last.err = "RandomnessAlreadyRevealed"
    /\ cfPlayer[last.user].exists
    /\ commits[last.user] > 0

\* C7: a commit never succeeds against a randomness account whose value is
\* already obtainable at the commit slot.
C7_NoCommitOnRevealed ==
    [][\A u \in Users :
          (TxStep(CommitOps, u) /\ last'.err = "Ok")
          => ~GetValueOk(rand[last'.acct], slot)]_vars

\* C8: a settle on the committed randomness account before its value is
\* revealed fails with RandomnessNotResolved and leaves player state and
\* balances as they were, so the commitment stays pending however often the
\* settle is retried; once the value is revealed, settling on that account
\* succeeds.
C8_SettleBeforeReveal ==
    /\ [][\A u \in Users :
            (/\ TxStep(SettleOps, u)
             /\ Committed(u, last'.acct)
             /\ ~GetValueOk(rand[last'.acct], slot))
            => /\ last'.err = "RandomnessNotResolved"
               /\ NothingChanged
               /\ Pending(u)']_vars
    /\ [](\A u \in Users, acct \in RandAccts :
            (Committed(u, acct) /\ GetValueOk(rand[acct], slot))
            => SettleNow(u, acct).err = "Ok")

\* C8 witness: a settle on the committed account was turned away with
\* RandomnessNotResolved, the commitment is still pending, and the value has
\* been revealed since, so that the retry is due.
C8_Witness ==
    /\ last.op \in SettleOps
    /\ last.err = "RandomnessNotResolved"
    /\ Committed(last.user, last.acct)
    /\ GetValueOk(rand[last.acct], slot)

\* C9: every successful settle leaves the player Idle: pending flag false
\* and stored randomness reference cleared.
C9_SettleLeavesIdle ==
    \A u \in Users :
        (last.op \in SettleOps /\ last.user = u /\ last.err = "Ok") => Idle(u)

\* C10: initialize leaves the player Idle; the player is pending after every
\* successful commit and idle after every successful settle; nothing but a
\* successful commit makes an idle player pending and nothing but a
\* successful settle makes a pending player idle.
C10_PendingBetweenCommitAndSettle ==
    [][\A u \in Users :
          /\ (TxStep({"initialize"}, u) /\ last'.err = "Ok") => ~Pending(u)'
          /\ (TxStep(CommitOps, u) /\ last'.err = "Ok") => Pending(u)'
          /\ (TxStep(SettleOps, u) /\ last'.err = "Ok") => ~Pending(u)'
          /\ (~Pending(u) /\ Pending(u)')
                => (TxStep(CommitOps, u) /\ last'.err = "Ok")
          /\ (Pending(u) /\ ~Pending(u)')
                => (TxStep(SettleOps, u) /\ last'.err = "Ok")]_vars

\* C11: a successful coin_flip moves exactly the wager from the player's
\* wallet to the escrow and touches no other wallet; a coin_flip by a player
\* whose balance is below the wager fails, with NotEnoughFundsToPlay when
\* the account passed parses and its seed is fresh, and then no lamports
\* move and the player state (the stored randomness reference with it) is
\* as before.
C11_WagerMovesToEscrow ==
    [][\A u \in Users :
          /\ (TxStep({"coin_flip"}, u) /\ last'.err = "Ok")
                => /\ lamports' = [lamports EXCEPT ![u] = @ - cfPlayer[u].wager]
                   /\ escrow' = escrow + cfPlayer[u].wager
          /\ (/\ TxStep({"coin_flip"}, u)
              /\ cfPlayer[u].exists
              /\ lamports[u] < cfPlayer[u].wager)
                => /\ last'.err # "Ok"
                   /\ NothingChanged
                   /\ (/\ ParseOk(last'.acct)
                       /\ rand[last'.acct].seed_slot = slot - 1)
                         => last'.err = "NotEnoughFundsToPlay"]_vars

\* C11 witness: a coin_flip of an initialized player has just been turned
\* away for lack of funds, after earlier wagers went to the escrow.
C11_Witness ==
    /\ last.op = "coin_flip"
    /\ last.err = "NotEnoughFundsToPlay"
    /\ cfPlayer[last.user].exists
    /\ lamports[last.user] < cfPlayer[last.user].wager
    /\ escrow > EscrowFunds

\* The flip of the account passed resolves in the player's favour: the
\* revealed byte is even exactly when the recorded guess is heads.
CfWins(user, acct) ==
    /\ ParseOk(acct)
    /\ (rand[acct].value % 2 = 0) = cfPlayer[user].current_guess

\* C12: a successful settle_flip that resolves in the player's favour while
\* the escrow holds at least twice the wager debits the escrow by exactly
\* twice the wager, credits the player exactly twice the wager, and clears
\* the pending commitment.
C12_WinPaysDouble ==
    [][\A u \in Users :
          (/\ TxStep({"settle_flip"}, u)
           /\ last'.err = "Ok"
           /\ CfWins(u, last'.acct)
           /\ escrow >= 2 * cfPlayer[u].wager)
             => /\ escrow' = escrow - 2 * cfPlayer[u].wager
                /\ lamports'[u] = lamports[u] + 2 * cfPlayer[u].wager
                /\ ~CfPending(u)']_vars

\* C13: a settle_flip that resolves in the player's favour while the escrow
\* cannot cover the payout (twice the wager on top of the balance the escrow
\* must keep) still succeeds, moves no lamports, and clears the pending
\* commitment.
C13_DeferredPayoutStillSettles ==
    [][\A u \in Users :
          (/\ TxStep({"settle_flip"}, u)
           /\ cfPlayer[u].exists
           /\ CfWins(u, last'.acct)
           /\ GetValueOk(rand[last'.acct], slot)
           /\ escrow < 2 * cfPlayer[u].wager + RentMinimumBalance(0))
             => /\ last'.err = "Ok"
                /\ UNCHANGED <<lamports, escrow>>
                /\ ~CfPending(u)']_vars

\* C14: the coin-flip escrow grows only in a successful coin_flip; a
\* settle_flip that the player loses moves no funds; the escrow shrinks only
\* in a successful settle_flip that the player wins while the escrow holds
\* at least twice the wager.
C14_EscrowFlows ==
    [][/\ (escrow' > escrow)
            => \E u \in Users : TxStep({"coin_flip"}, u) /\ last'.err = "Ok"
       /\ \A u \in Users :
            (/\ TxStep({"settle_flip"}, u)
             /\ last'.err = "Ok"
             /\ ~CfWins(u, last'.acct))
               => UNCHANGED <<lamports, escrow>>
       /\ (escrow' < escrow)
            => \E u \in Users :
                 /\ TxStep({"settle_flip"}, u)
                 /\ last'.err = "Ok"
                 /\ CfWins(u, last'.acct)
                 /\ escrow >= 2 * cfPlayer[u].wager]_vars

\* C14 witness: a settle_flip on a wager placed has just succeeded with the
\* flip lost, the wager staying in the escrow.
C14_Witness ==
    /\ last.op = "settle_flip"
    /\ last.err = "Ok"
    /\ commits[last.user] > 0
    /\ cfPlayer[last.user].latest_flip_result # cfPlayer[last.user].current_guess
    /\ escrow > EscrowFunds

\* The player state of user has been created by initialize.
PlayerExists(user) ==
    IF program = "sb_randomness" THEN cfPlayer[user].exists ELSE psPlayer[user].exists

\* The owner recorded in the player state of user: allowed_user in
\* sb_randomness, authority in pancake_stacker.
Owner(user) ==
    IF program = "sb_randomness"
    THEN cfPlayer[user].allowed_user
    ELSE psPlayer[user].authority

\* C15: no step changes the owner recorded in an initialized player state,
\* and a commit on a player state succeeds only when the transaction is
\* signed by the owner recorded in it.
C15_OwnerFixedAndSigns ==
    [][\A o \in Users :
          /\ PlayerExists(o) => Owner(o)' = Owner(o)
          /\ (commits'[o] > commits[o])
                => /\ last'.op \in CommitOps
                   /\ last'.err = "Ok"
                   /\ last'.user = Owner(o)]_vars

\* C15 witness: the owner has committed on their player state, and a commit
\* on it signed by another key has just been turned away.
C15_Witness ==
    \E o \in Users :
        /\ commits[o] > 0
        /\ Owner(o) = o
        /\ last.op \in CommitOps
        /\ last.user # Owner(o)
        /\ last.err = "ConstraintSeeds"

\* The counter or stake of the player state of user: wager in sb_randomness,
\* stack_height in pancake_stacker.
Stake(user) ==
    IF program = "sb_randomness"
    THEN cfPlayer[user].wager
    ELSE psPlayer[user].stack_height

\* C16: once the player state exists, only a successful settle changes its
\* stack_height or wager: every commit and every failing instruction leave
\* it as it was.
C16_StakeChangesOnlyOnSettle ==
    [][\A u \in Users :
          (PlayerExists(u) /\ Stake(u)' # Stake(u))
             => (TxStep(SettleOps, u) /\ last'.err = "Ok")]_vars

\* C16 witness: a commit has just succeeded on a stack that an earlier
\* settle had raised, and the stack is still standing.
C16_Witness ==
    /\ last.op = "flip_pancake"
    /\ last.err = "Ok"
    /\ psPlayer[last.user].stack_height > 0

\* ------------------------------------------- the outcome of a settlement
\* revealed_random_value[0] is a u8.
MaxByte == 255

\* A player who committed on r1, seeded in slot 2, one slot ago, with r1
\* revealed since to any byte: the coin-flip player with either guess and
\* the escrow able or unable to pay, the pancake player with an empty stack
\* or one pancake on it.
InitOutcome ==
    /\ program \in Programs
    /\ slot = 3
    /\ \E byte \in 0..MaxByte :
         rand = [r \in RandAccts |->
                   IF r = "r1"
                   THEN [seed_slot |-> 2, reveal_slot |-> 3, value |-> byte]
                   ELSE EmptyRandomness]
    /\ commits = [u \in Users |-> 1]
    /\ outstanding = [u \in Users |-> 1]
    /\ payouts = [u \in Users |-> 0]
    /\ streak = [u \in Users |-> 0]
    /\ aoState = AoNoState
    /\ aoOracle = AoNoOracle
    /\ FeedInit
    /\ IF program = "sb_randomness"
       THEN /\ \E guess \in BOOLEAN :
                 cfPlayer = [u \in Users |->
                               [cf_initialize(u) EXCEPT !.randomness_account = "r1",
                                                        !.current_guess = guess]]
            /\ psPlayer = [u \in Users |-> PsNoPlayer]
            /\ lamports = [u \in Signers |->
                             IF u \in Users
                             THEN UserFunds - RentMinimumBalance(CfSpace) - 100
                             ELSE UserFunds]
            /\ escrow \in {EscrowFunds + 100, RentMinimumBalance(0) + 100}
            /\ last = [op |-> "coin_flip", user |-> "u1", acct |-> "r1",
                       err |-> "Ok", seq |-> 0]
       ELSE /\ cfPlayer = [u \in Users |-> CfNoPlayer]
            /\ \E height \in {0, 1} :
                 psPlayer = [u \in Users |->
                               [ps_initialize(u) EXCEPT !.randomness_account = "r1",
                                                        !.has_pending_flip = TRUE,
                                                        !.commit_slot = 2,
                                                        !.stack_height = height]]
            /\ lamports = [u \in Signers |->
                             IF u \in Users
                             THEN UserFunds - RentMinimumBalance(PsSpace)
                             ELSE UserFunds]
            /\ escrow = EscrowFunds
            /\ last = [op |-> "flip_pancake", user |-> "u1", acct |-> "r1",
                       err |-> "Ok", seq |-> 0]

\* The player settles, with any account and any bump.
NextOutcome ==
    \/ \E user \in Users, acct \in Accounts, bump_ok \in BOOLEAN :
          SettleFlip(user, acct, bump_ok)
    \/ \E user \in Users, acct \in Accounts : CatchPancake(user, acct)

SpecOutcome == InitOutcome /\ [][NextOutcome]_vars

\* C17: the outcome of a successful settle is a function of the first
\* revealed byte and of the state recorded at commit.  settle_flip records
\* heads exactly when the byte is even, and pays (the escrow able and signed
\* for) exactly when heads-or-tails equals the guess recorded at commit;
\* catch_pancake adds one pancake when the byte modulo 3 is 0 or 1 and
\* resets the stack to 0 when it is 2.
C17_OutcomeFromByte ==
    [][\A u \in Users :
          /\ (TxStep({"settle_flip"}, u) /\ last'.err = "Ok")
                => LET byte == rand[last'.acct].value
                       heads == \E k \in 0..MaxByte : byte = 2 * k
                       wins == heads = cfPlayer[u].current_guess
                       able == escrow >= 2 * cfPlayer[u].wager + RentMinimumBalance(0)
                   IN  /\ cfPlayer'[u].latest_flip_result = heads
                       /\ (escrow' # escrow \/ lamports' # lamports) => wins
                       /\ (wins /\ able)
                             => /\ escrow' = escrow - 2 * cfPlayer[u].wager
                                /\ lamports'[u] = lamports[u] + 2 * cfPlayer[u].wager
          /\ (TxStep({"catch_pancake"}, u) /\ last'.err = "Ok")
                => LET byte == rand[last'.acct].value
                   IN  psPlayer'[u].stack_height =
                           IF byte % 3 \in {0, 1}
                           THEN psPlayer[u].stack_height + 1
                           ELSE 0]_vars

\* C17 witness: a pancake has just fallen on a byte that is 2 modulo 3, and
\* the stack is empty again.
C17_Witness ==
    /\ last.op = "catch_pancake"
    /\ last.err = "Ok"
    /\ rand["r1"].value % 3 = 2
    /\ rand["r1"].value > 128
    /\ commits[last.user] > 0
    /\ psPlayer[last.user].stack_height = 0

\* acct is freshly seeded: its seed slot is the slot before the current one
\* and its value is not revealed yet.
FreshlySeeded(acct) ==
    /\ rand[acct].seed_slot = slot - 1
    /\ ~GetValueOk(rand[acct], slot)

\* The result a commit by user on acct would have in the current state.
CommitNow(user, acct) ==
    IF program = "sb_randomness"
    THEN coin_flip(cfPlayer[user], lamports[user], escrow, slot, acct, acct, TRUE)
    ELSE flip_pancake(psPlayer[user], slot, acct, acct)

\* C18: there is no terminal state: after a successful settle the player's
\* commit on any freshly seeded source succeeds, in sb_randomness as long
\* as the balance covers the wager.
C18_CommitAgainAfterSettle ==
    \A u \in Users :
        (last.op \in SettleOps /\ last.user = u /\ last.err = "Ok")
           => \A acct \in RandAccts :
                 (/\ FreshlySeeded(acct)
                  /\ program = "sb_randomness" => lamports[u] >= cfPlayer[u].wager)
                    => CommitNow(u, acct).err = "Ok"

\* C18 witness: a catch_pancake has just succeeded and a freshly seeded
\* source is at hand for the next flip.
C18_Witness ==
    /\ last.op = "catch_pancake"
    /\ last.err = "Ok"
    /\ commits[last.user] > 0
    /\ \E acct \in RandAccts : FreshlySeeded(acct)

\* The randomness reference stored in the player state of user.
StoredRef(user) ==
    IF program = "sb_randomness"
    THEN cfPlayer[user].randomness_account
    ELSE psPlayer[user].randomness_account

\* The player state of user holds seed as the seed checkpoint of its
\* commitment.  PlayerState of sb_randomness has no field for it.
HoldsSeed(user, seed) ==
    IF program = "sb_randomness"
    THEN /\ "commit_slot" \in DOMAIN cfPlayer[user]
         /\ cfPlayer[user].commit_slot = seed
    ELSE psPlayer[user].commit_slot = seed

\* C19: after a successful commit the player state holds a randomness
\* reference supplied to the commit and the seed slot the source had at
\* commit time, which is the slot before the commit's.
C19_CommitRecordsRefAndSeed ==
    [][\A u \in Users :
          (TxStep(CommitOps, u) /\ last'.err = "Ok")
             => /\ StoredRef(u)' \in RandAccts
                /\ rand[last'.acct].seed_slot = slot - 1
                /\ HoldsSeed(u, slot - 1)']_vars

\* --------------------------------- claims on advanced_oracle_example
\* The instructions of advanced_oracle_example that write an account.
AoMutating == {"process_oracle_data", "legacy_oracle_update", "update_authority"}

\* Each state-mutating instruction turns key away as unauthorized in the
\* current state.
AoRejects(key) ==
    /\ \A quote \in Quotes :
          process_oracle_data(aoState, aoOracle, key, quote, slot).err
             = "UnauthorizedAccess"
    /\ \A new_authority \in Authorities :
          update_authority(aoState, aoOracle, key, new_authority).err
             = "UnauthorizedAccess"
    /\ legacy_oracle_update(aoState, aoOracle, key, slot).err = "UnauthorizedAccess"

\* No state-mutating instruction turns key away as unauthorized in the
\* current state.
AoAccepts(key) ==
    /\ \A quote \in Quotes :
          process_oracle_data(aoState, aoOracle, key, quote, slot).err
             # "UnauthorizedAccess"
    /\ \A new_authority \in Authorities :
          update_authority(aoState, aoOracle, key, new_authority).err = "Ok"
    /\ legacy_oracle_update(aoState, aoOracle, key, slot).err = "Ok"

\* C20: once ProgramState is initialized, a state-mutating instruction
\* signed by a key other than state.authority fails with UnauthorizedAccess
\* and leaves ProgramState and the quote account unchanged; state.authority
\* changes only in a successful update_authority signed by the authority of
\* the time; and after it the new authority is accepted and every other key,
\* the old authority included, is rejected.
C20_AuthorityGuardsState ==
    [][/\ (/\ aoState.exists
           /\ last' # last
           /\ last'.op \in AoMutating
           /\ last'.user # aoState.authority)
             => /\ last'.err = "UnauthorizedAccess"
                /\ UNCHANGED <<aoState, aoOracle>>
       /\ (aoState.exists /\ aoState'.authority # aoState.authority)
             => /\ last' # last
                /\ last'.op = "update_authority"
                /\ last'.err = "Ok"
                /\ last'.user = aoState.authority
       /\ (last' # last /\ last'.op = "update_authority" /\ last'.err = "Ok")
             => \A key \in Signers :
                   IF key = aoState'.authority THEN AoAccepts(key)' ELSE AoRejects(key)'
      ]_vars

\* C20 witness: the authority has just handed ProgramState over to another
\* key with update_authority.
C20_Witness ==
    /\ last.op = "update_authority"
    /\ last.err = "Ok"
    /\ aoState.exists
    /\ aoState.authority # last.user
    /\ aoState.oracle_calls > 0

\* ------------------- claims on advanced-oracle-example (pinocchio)
\* C21: crank writes the quote account only when the account passed as state
\* is a valid state account and the payer's key is the authorized signer
\* stored in it; with an invalid state account it fails with Custom(2), with
\* another payer key with Custom(1), and then the quote account is as
\* before.
C21_CrankChecksStateAndPayer ==
    /\ [][(last' # last /\ last'.op = "crank")
             => /\ (last'.err = "Ok" \/ pnQuote' # pnQuote)
                     => /\ pnState.exists
                        /\ pnState.data = last'.acct
                /\ (last'.err # "Ok") => UNCHANGED <<pnState, pnQuote>>
                /\ ~pnState.exists => last'.err = "Custom(2)"
                /\ (pnState.exists /\ pnState.data # last'.acct)
                     => last'.err \in {"Custom(1)", "Custom(2)"}]_vars
    /\ [](\A account \in PnAccounts, payer \in Signers, ix \in IxQuotes :
            LET r == crank(pnState, pnQuote, account, payer, ix)
            IN  /\ ~(account = "state_pda" /\ pnState.exists) => r.err = "Custom(2)"
                /\ (account = "state_pda" /\ pnState.exists /\ pnState.data # payer)
                     => r.err = "Custom(1)"
                /\ r.err # "Ok" => r.quote = pnQuote)

\* C21 witness: with the state account and the quote account in place, a
\* crank by a payer other than the stored signer has just been turned away
\* with Custom(1), after a crank of the stored signer wrote a quote.
C21_Witness ==
    /\ last.op = "crank"
    /\ last.err = "Custom(1)"
    /\ pnState.exists
    /\ pnQuote.exists
    /\ pnQuote.head = "quote"

\* C26: init_state and init_oracle are idempotent: on an account that is
\* already initialised they succeed without creating it again and leave the
\* state account, its authorized signer in particular, and the quote account
\* as they were, whoever the payer is.
C26_InitIsIdempotent ==
    /\ [][/\ (last' # last /\ last'.op = "init_state" /\ pnState.exists
                /\ last'.err = "Ok")
               => /\ pnState' = pnState
                  /\ lamports' = lamports
          /\ (last' # last /\ last'.op = "init_oracle" /\ pnQuote.exists
                /\ last'.err = "Ok")
               => /\ pnQuote' = pnQuote
                  /\ lamports' = lamports]_vars
    /\ [](\A payer \in Signers, signed \in BOOLEAN, sys_ok \in BOOLEAN :
            /\ pnState.exists
                 => init_state(pnState, pnQuote, "state_pda", payer,
                               lamports[payer], signed, sys_ok).err = "Ok"
            /\ pnQuote.exists
                 => init_oracle(pnState, pnQuote, "quote_pda", TRUE, TRUE,
                                lamports[payer], signed, sys_ok).err = "Ok")

\* C29: a crank writes the quote only in a transaction signed by the stored
\* authorized signer: a crank whose payer account carries the stored key
\* without having signed is rejected.
C29_CrankNeedsSignature ==
    [][(last' # last /\ last'.op = "crank" /\ last'.err = "Ok")
          => /\ last'.acct = pnState.data
             /\ last'.user = last'.acct]_vars

C23_FeedMatchesOrder ==
    [][(last' # last /\ last'.op = "verify_kalshi_feed")
          => LET expected == create_kalshi_feed_id(call'.order_id)
             IN  /\ (last'.err = "Ok")
                      => /\ call'.valid
                         /\ Len(call'.feeds) >= 1
                         /\ call'.feeds[1] = expected
                 /\ (call'.valid /\ Len(call'.feeds) = 0)
                      => last'.err = "NoOracleFeeds"
                 /\ (call'.valid /\ Len(call'.feeds) >= 1
                       /\ call'.feeds[1] # expected)
                      => last'.err = "FeedMismatch"
                 /\ (last'.err = "Ok" /\ last.op = "verify_kalshi_feed"
                       /\ last.err = "Ok" /\ call.order_id = call'.order_id)
                      => call'.feeds[1] = call.feeds[1]]_vars

\* C23 witness: a quote with two feeds, the first with the id derived from
\* order o2, has just been verified against o2.
C23_Witness ==
    /\ last.op = "verify_kalshi_feed"
    /\ last.err = "Ok"
    /\ call.order_id = "o2"
    /\ Len(call.feeds) = 2
    /\ call.feeds[2] # create_kalshi_feed_id("o2")

\* ----------------------------------- further claims on the two games
\* Lamports a user has put into the rent of their player_state account.
RentPaid(u) == IF cfPlayer[u].exists THEN RentMinimumBalance(CfSpace) ELSE 0

\* C24: coin_flip and settle_flip conserve lamports.  The balance of a
\* player and the escrow add up to what they started with, less the rent
\* of the player's account; the escrow holds what it started with plus one
\* wager per commit less two wagers per payout; the wallet of a key that
\* owns no player state is as it started.
C24_LamportsConserved ==
    program = "sb_randomness"
      => /\ \A u \in Users :
              /\ lamports[u] + RentPaid(u) + escrow = UserFunds + EscrowFunds
              /\ escrow = EscrowFunds + 100 * commits[u] - 200 * payouts[u]
              /\ cfPlayer[u].exists => cfPlayer[u].wager = 100
         /\ \A s \in Signers \ Users : lamports[s] = UserFunds

\* C24 witness: after two commits and one payout a settle_flip has just
\* failed.
C24_Witness ==
    /\ program = "sb_randomness"
    /\ commits["u1"] = 2
    /\ payouts["u1"] = 1
    /\ last.op = "settle_flip"
    /\ last.err # "Ok"

\* C25: the counters of advanced_oracle_example are exact: initialize sets
\* both to zero, each successful process_oracle_data adds one to
\* oracle_calls and the number of feeds of its quote to
\* total_feeds_processed, and no other step (update_authority, get_stats,
\* legacy_oracle_update, any failed instruction) changes either.
C25_CountersExact ==
    [][IF last' # last /\ last'.op = "process_oracle_data" /\ last'.err = "Ok"
       THEN /\ aoState'.oracle_calls = aoState.oracle_calls + 1
            /\ aoState'.total_feeds_processed
                 = aoState.total_feeds_processed + Len(out')
       ELSE IF last' # last /\ last'.op = "initialize" /\ last'.err = "Ok"
       THEN /\ aoState'.oracle_calls = 0
            /\ aoState'.total_feeds_processed = 0
       ELSE /\ aoState'.oracle_calls = aoState.oracle_calls
            /\ aoState'.total_feeds_processed = aoState.total_feeds_processed]_vars

\* C25 witness: after two successful calls that processed three feeds
\* between them, a process_oracle_data has just failed.
C25_Witness ==
    /\ aoState.exists
    /\ aoState.oracle_calls = 2
    /\ aoState.total_feeds_processed = 3
    /\ last.op = "process_oracle_data"
    /\ last.err # "Ok"

\* C27: the reference a successful commit (coin_flip, flip_pancake) stores
\* is the address of the randomness account the handler parsed: the
\* randomness_account argument stored always equals the key of the account
\* passed as randomness_account_data.
C27_StoredRefIsParsedAccount ==
    [][\A u \in Users :
          (TxStep(CommitOps, u) /\ last'.err = "Ok")
             => StoredRef(u)' = last'.acct]_vars

\* C28: a payout never takes the escrow below its rent-exempt minimum:
\* the escrow, which starts at or above the minimum, stays at or above it,
\* and settle_flip pays two wagers only out of an escrow that holds two
\* wagers on top of the minimum.
C28_EscrowKeepsRent ==
    /\ escrow >= RentMinimumBalance(0)
    /\ program = "sb_randomness"
         => \A u \in Users, acct \in Accounts, bump_ok \in BOOLEAN :
               LET r == settle_flip(cfPlayer[u], lamports[u], escrow, slot, acct,
                                    bump_ok)
               IN  /\ r.from >= RentMinimumBalance(0)
                   /\ (r.from # escrow)
                        => /\ escrow >= 2 * cfPlayer[u].wager + RentMinimumBalance(0)
                           /\ r.from = escrow - 2 * cfPlayer[u].wager

\* C28 witness: the escrow has paid out twice and holds less than two
\* wagers on top of its rent-exempt minimum; a settle_flip the player won
\* has just succeeded without a payout.
C28_Witness ==
    /\ program = "sb_randomness"
    /\ payouts["u1"] = 2
    /\ escrow < RentMinimumBalance(0) + 2 * cfPlayer["u1"].wager
    /\ last.op = "settle_flip"
    /\ last.err = "Ok"
    /\ cfPlayer["u1"].latest_flip_result = cfPlayer["u1"].current_guess

\* C30: in every reachable state of pancake_stacker the stack_height of a
\* player is the number of pancakes landed in a row by catch_pancake since
\* the last one that knocked the stack over, or since initialize; and
\* whenever has_pending_flip is false the stored randomness_account is the
\* default key.
C30_StackIsStreak ==
    program = "pancake_stacker"
      => \A u \in Users :
            /\ psPlayer[u].stack_height = streak[u]
            /\ ~psPlayer[u].has_pending_flip
                 => psPlayer[u].randomness_account = DefaultPubkey

\* C30 witness: a player whose stack was knocked over has since landed a
\* pancake and has no flip pending.
C30_Witness ==
    /\ program = "pancake_stacker"
    /\ commits["u1"] = 2
    /\ psPlayer["u1"].stack_height = 1
    /\ ~psPlayer["u1"].has_pending_flip
    /\ last.op = "catch_pancake"
    /\ last.err = "Ok"

=============================================================================
